---- MODULE Spec2Model ----
(***************************************************************************)
(* Model of frontend/src/config/builtin-tools.ts: the literal registry     *)
(* BUILTIN_TOOLS, the breadcrumb index BUILTIN_TOOL_BREADCRUMBS derived    *)
(* from it by Object.fromEntries(BUILTIN_TOOLS.map(t => [t.href, t.name])) *)
(* and the collaborators that read the two exports.                        *)
(*                                                                         *)
(* Strings of the source that are not ASCII are written with each such     *)
(* character as <U+XXXX> (its code point), an injective spelling.          *)
(***************************************************************************)
EXTENDS FiniteSets, Integers, Sequences, TLC

VARIABLES pc, tools, entries, index, menuPos, menuSeen, menuLast, crumbPath, crumbLabel

vars == <<pc, tools, entries, index, menuPos, menuSeen, menuLast, crumbPath, crumbLabel>>

(* ------------------------------ bounds -------------------------------- *)

\* Longest registry the derivation is applied to in SpecAny.
MaxLen == 3
\* Number of concurrent readers (each renders a menu and a breadcrumb).
NumReaders == 2
\* Longest array an importer grows BUILTIN_TOOLS to in SpecExport.
MaxTools == 4

Readers == 1..NumReaders

\* Field values of the registries SpecAny derives an index from.
Names == {"A", "B"}
Hrefs == {"/x", "/y", "__proto__"}
Descriptions == {"d1", "d2"}
Icons == {"Mail", "Shield"}

(* --------------------------- JavaScript values ------------------------ *)

\* Values a property read can produce.
Str(s) == [type |-> "string", val |-> s]
Undefined == [type |-> "undefined", val |-> ""]
Fn(n) == [type |-> "function", val |-> n]
Obj(n) == [type |-> "object", val |-> n]

\* interface BuiltinTool
BuiltinTool(n, d, h, i) == [name |-> n, description |-> d, href |-> h, icon |-> i]

\* The third descriptor given the href of the second.
BUILTIN_TOOLS_DupHref ==
  << BuiltinTool("<U+90AE><U+4EF6><U+914D><U+7F6E>",
                 "<U+914D><U+7F6E> SMTP <U+90AE><U+4EF6><U+670D><U+52A1><U+FF0C><U+7BA1><U+7406><U+90AE><U+4EF6><U+6A21><U+677F><U+548C><U+53D1><U+9001><U+8BBE><U+7F6E>",
                 "/admin/email", "Mail"),
     BuiltinTool("IP <U+5B89><U+5168>",
                 "<U+7BA1><U+7406> IP <U+9ED1><U+767D><U+540D><U+5355><U+FF0C><U+63A7><U+5236><U+7CFB><U+7EDF><U+8BBF><U+95EE><U+6743><U+9650>",
                 "/admin/ip-security", "Shield"),
     BuiltinTool("<U+5BA1><U+8BA1><U+65E5><U+5FD7>",
                 "<U+67E5><U+770B><U+7CFB><U+7EDF><U+64CD><U+4F5C><U+65E5><U+5FD7><U+FF0C><U+8FFD><U+8E2A><U+5B89><U+5168><U+4E8B><U+4EF6><U+4E0E><U+53D8><U+66F4><U+8BB0><U+5F55>",
                 "/admin/ip-security", "AlertTriangle") >>

\* The first two descriptors declared in the other order.
BUILTIN_TOOLS_Reordered ==
  << BuiltinTool("IP <U+5B89><U+5168>",
                 "<U+7BA1><U+7406> IP <U+9ED1><U+767D><U+540D><U+5355><U+FF0C><U+63A7><U+5236><U+7CFB><U+7EDF><U+8BBF><U+95EE><U+6743><U+9650>",
                 "/admin/ip-security", "Shield"),
     BuiltinTool("<U+90AE><U+4EF6><U+914D><U+7F6E>",
                 "<U+914D><U+7F6E> SMTP <U+90AE><U+4EF6><U+670D><U+52A1><U+FF0C><U+7BA1><U+7406><U+90AE><U+4EF6><U+6A21><U+677F><U+548C><U+53D1><U+9001><U+8BBE><U+7F6E>",
                 "/admin/email", "Mail"),
     BuiltinTool("<U+5BA1><U+8BA1><U+65E5><U+5FD7>",
                 "<U+67E5><U+770B><U+7CFB><U+7EDF><U+64CD><U+4F5C><U+65E5><U+5FD7><U+FF0C><U+8FFD><U+8E2A><U+5B89><U+5168><U+4E8B><U+4EF6><U+4E0E><U+53D8><U+66F4><U+8BB0><U+5F55>",
                 "/admin/audit-logs", "AlertTriangle") >>

\* The array literal of lines 11-30, in declaration order; an icon is the
\* name of the imported component.
BUILTIN_TOOLS ==
  << BuiltinTool("<U+90AE><U+4EF6><U+914D><U+7F6E>",
                 "<U+914D><U+7F6E> SMTP <U+90AE><U+4EF6><U+670D><U+52A1><U+FF0C><U+7BA1><U+7406><U+90AE><U+4EF6><U+6A21><U+677F><U+548C><U+53D1><U+9001><U+8BBE><U+7F6E>",
                 "/admin/email", "Mail"),
     BuiltinTool("IP <U+5B89><U+5168>",
                 "<U+7BA1><U+7406> IP <U+9ED1><U+767D><U+540D><U+5355><U+FF0C><U+63A7><U+5236><U+7CFB><U+7EDF><U+8BBF><U+95EE><U+6743><U+9650>",
                 "/admin/ip-security", "Shield"),
     BuiltinTool("<U+5BA1><U+8BA1><U+65E5><U+5FD7>",
                 "<U+67E5><U+770B><U+7CFB><U+7EDF><U+64CD><U+4F5C><U+65E5><U+5FD7><U+FF0C><U+8FFD><U+8E2A><U+5B89><U+5168><U+4E8B><U+4EF6><U+4E0E><U+53D8><U+66F4><U+8BB0><U+5F55>",
                 "/admin/audit-logs", "AlertTriangle") >>

(* ------------------- BUILTIN_TOOLS.map(t => [t.href, t.name]) --------- *)

\* Keyed by the name instead of the href.
ToEntry_KeyByName(t) == <<t.name, t.name>>

\* The pair the other way round.
ToEntry_Swapped(t) == <<t.name, t.href>>

\* The description as the label.
ToEntry_Description(t) == <<t.href, t.description>>

\* The arrow function t => [t.href, t.name].
ToEntry(t) == <<t.href, t.name>>

\* Array.prototype.map: a new array, same length, callback applied in order;
\* the receiver is not modified.
MapEntries(ts) == [i \in 1..Len(ts) |-> ToEntry(ts[i])]

(* --------------------------- Object.fromEntries ----------------------- *)

\* A fresh ordinary object: no own properties, prototype Object.prototype.
\* Own properties are a function from key to string value.
EmptyObject == [k \in {} |-> ""]

\* An existing key is kept: the first entry wins.
CreateDataProperty_FirstWins(o, k, v) ==
  IF k \in DOMAIN o THEN o ELSE [x \in (DOMAIN o) \cup {k} |-> IF x = k THEN v ELSE o[x]]

\* o[k] = v instead: "__proto__" reaches the setter inherited from
\* Object.prototype, which ignores a string.
CreateDataProperty_Assign(o, k, v) ==
  IF k = "__proto__" THEN o ELSE [x \in (DOMAIN o) \cup {k} |-> IF x = k THEN v ELSE o[x]]

\* CreateDataPropertyOrThrow(obj, key, value): defines or overwrites the own
\* data property key (every key, "__proto__" too).
CreateDataProperty(o, k, v) == [x \in (DOMAIN o) \cup {k} |-> IF x = k THEN v ELSE o[x]]

\* AddEntriesFromIterable: the entries in iteration order, each one defined
\* on the object, so a later entry overwrites an earlier one of the same key.
RECURSIVE AddEntries(_, _)
AddEntries(o, es) ==
  IF es = <<>> THEN o
  ELSE AddEntries(CreateDataProperty(o, Head(es)[1], Head(es)[2]), Tail(es))

\* Built with reduce and no initial value: throws on an empty array.
ObjectFromEntries_Reduce(es) ==
  IF es = <<>> THEN [type |-> "throw", value |-> EmptyObject]
  ELSE [type |-> "normal", value |-> AddEntries(EmptyObject, es)]

\* Object.fromEntries(iterable), as a completion record. It throws only for
\* an entry that is not an object; every entry map produces is an array.
ObjectFromEntries(es) == [type |-> "normal", value |-> AddEntries(EmptyObject, es)]

\* Properties every ordinary object inherits from Object.prototype.
ObjectPrototype(k) ==
  CASE k = "constructor" -> Fn("Object")
    [] k = "toString" -> Fn("toString")
    [] k = "__proto__" -> Obj("Object.prototype")
    [] OTHER -> Undefined

\* OrdinaryGet, BUILTIN_TOOL_BREADCRUMBS[k]: the own property if there is
\* one, else what the prototype chain gives.
Get(o, k) == IF k \in DOMAIN o THEN Str(o[k]) ELSE ObjectPrototype(k)

\* Object.keys(o)
Keys(o) == DOMAIN o

(* ------------------------------ states -------------------------------- *)

\* Paths a breadcrumb renderer asks for: routes of the tools and others.
LookupPaths ==
  {"/admin/email", "/admin/audit-logs", "/admin/unknown", "constructor", "toString", "__proto__"}

ReadersIdle ==
  /\ menuPos = [r \in Readers |-> 0]
  /\ menuSeen = [r \in Readers |-> <<>>]
  /\ menuLast = [r \in Readers |-> <<>>]
  /\ crumbPath = [r \in Readers |-> ""]
  /\ crumbLabel = [r \in Readers |-> Undefined]

\* Module evaluation has reached line 31: the array literal exists, the
\* index does not yet.
Init ==
  /\ pc = "declared"
  /\ tools = BUILTIN_TOOLS
  /\ entries = <<>>
  /\ index = EmptyObject
  /\ ReadersIdle

\* Any registry of at most MaxLen descriptors in place of the literal.
AnyTools ==
  UNION {[1..n -> [name : Names, description : Descriptions, href : Hrefs, icon : Icons]] :
           n \in 0..MaxLen}

InitAny ==
  /\ pc = "declared"
  /\ tools \in AnyTools
  /\ entries = <<>>
  /\ index = EmptyObject
  /\ ReadersIdle

readerVars == <<menuPos, menuSeen, menuLast, crumbPath, crumbLabel>>

(* ------------------------- module evaluation -------------------------- *)

\* Line 34: BUILTIN_TOOLS.map(t => [t.href, t.name]).
Map ==
  /\ pc = "declared"
  /\ entries' = MapEntries(tools)
  /\ pc' = "mapped"
  /\ UNCHANGED <<tools, index, readerVars>>

\* Line 33: Object.fromEntries(...) and the binding of the export; a throw
\* would end module evaluation with the export never initialised.
FromEntries ==
  /\ pc = "mapped"
  /\ LET c == ObjectFromEntries(entries)
     IN IF c.type = "normal"
        THEN index' = c.value /\ pc' = "ready"
        ELSE index' = index /\ pc' = "failed"
  /\ UNCHANGED <<tools, entries, readerVars>>

Derive == Map \/ FromEntries

(* ------------------------------ readers ------------------------------- *)

\* The menu renderer starts a (new) pass over BUILTIN_TOOLS, keeping what
\* the pass before yielded.
MenuBegin(r) ==
  /\ pc = "ready"
  /\ menuPos[r] >= Len(tools)
  /\ menuSeen[r] # <<>>
  /\ menuLast' = [menuLast EXCEPT ![r] = menuSeen[r]]
  /\ menuSeen' = [menuSeen EXCEPT ![r] = <<>>]
  /\ menuPos' = [menuPos EXCEPT ![r] = 0]
  /\ UNCHANGED <<pc, tools, entries, index, crumbPath, crumbLabel>>

\* One step of the iteration: the next element of the live array.
MenuStep(r) ==
  /\ pc = "ready"
  /\ menuPos[r] < Len(tools)
  /\ menuSeen' = [menuSeen EXCEPT ![r] = Append(@, tools[menuPos[r] + 1])]
  /\ menuPos' = [menuPos EXCEPT ![r] = @ + 1]
  /\ UNCHANGED <<pc, tools, entries, index, menuLast, crumbPath, crumbLabel>>

\* The breadcrumb renderer reads BUILTIN_TOOL_BREADCRUMBS[path].
CrumbLookup(r, path) ==
  /\ pc = "ready"
  /\ crumbPath' = [crumbPath EXCEPT ![r] = path]
  /\ crumbLabel' = [crumbLabel EXCEPT ![r] = Get(index, path)]
  /\ UNCHANGED <<pc, tools, entries, index, menuPos, menuSeen, menuLast>>

Read ==
  \/ \E r \in Readers : MenuBegin(r)
  \/ \E r \in Readers : MenuStep(r)
  \/ \E r \in Readers, path \in LookupPaths : CrumbLookup(r, path)

(* ----------------- what the exported values allow --------------------- *)

\* Descriptors an importer may add.
ExtraTools ==
  { BuiltinTool("Extra", "added by an importer", h, "Mail") :
      h \in {"/admin/extra", "/admin/email"} }

\* BUILTIN_TOOLS is exported as a plain Array (BuiltinTool[], not frozen):
\* Array.prototype.push appends in place.
ToolsPush(d) ==
  /\ pc = "ready"
  /\ Len(tools) < MaxTools
  /\ tools' = Append(tools, d)
  /\ UNCHANGED <<pc, entries, index, readerVars>>

\* BUILTIN_TOOL_BREADCRUMBS is exported as a plain object
\* (Record<string, string>, not frozen): assignment sets an own property.
BreadcrumbsSet(k, v) ==
  /\ pc = "ready"
  /\ k # "__proto__"
  /\ index' = CreateDataProperty(index, k, v)
  /\ UNCHANGED <<pc, tools, entries, readerVars>>

Write ==
  \/ \E d \in ExtraTools : ToolsPush(d)
  \/ \E k \in {"/admin/extra", "/admin/email"} : BreadcrumbsSet(k, "Extra")

(* --------------------------- specifications --------------------------- *)

Next == Derive \/ Read

\* The module as shipped, read by the repository's renderers.
Spec == Init /\ [][Next]_vars

\* The derivation applied to any registry.
SpecAny == InitAny /\ [][Derive]_vars

NextExport == Derive \/ Read \/ Write

\* The module as shipped, with importers using what the exports allow.
SpecExport == Init /\ [][NextExport]_vars

(* ------------------------------- claims ------------------------------- *)

\* C1: for every registry and every descriptor d in it, the derived index
\* maps d.href to the name of the last descriptor with that href; the
\* registry [{A, /x}, {B, /x}] yields exactly {/x: B}; the derivation never
\* ends in an error.
C1_LastWriteWins ==
  /\ pc # "failed"
  /\ pc = "ready" =>
       /\ \A i \in 1..Len(tools) :
            LET last == CHOOSE j \in 1..Len(tools) :
                          /\ tools[j].href = tools[i].href
                          /\ \A k \in (j + 1)..Len(tools) : tools[k].href # tools[i].href
            IN Get(index, tools[i].href) = Str(tools[last].name)
       /\ ( /\ Len(tools) = 2
            /\ tools[1].name = "A" /\ tools[1].href = "/x"
            /\ tools[2].name = "B" /\ tools[2].href = "/x" )
          => index = ("/x" :> "B")

\* An index was derived from a registry in which an href occurs twice, not
\* adjacently, under different names.
C1_Witness ==
  /\ pc = "ready"
  /\ Len(tools) = 3
  /\ tools[1].href = tools[3].href
  /\ tools[2].href # tools[1].href
  /\ tools[1].name # tools[3].name

\* C2: the keys of BUILTIN_TOOL_BREADCRUMBS are exactly the hrefs of the
\* descriptors of BUILTIN_TOOLS: none missing, none extra.
C2_KeysAreHrefs ==
  pc = "ready" =>
    /\ \A i \in 1..Len(tools) : tools[i].href \in Keys(index)
    /\ \A k \in Keys(index) : \E i \in 1..Len(tools) : tools[i].href = k

\* The index of the shipped registry is built and has its three keys.
C2_Witness == pc = "ready" /\ Cardinality(Keys(index)) = 3 /\ Len(tools) = 3

\* C3: a lookup of a string that is not the href of a descriptor yields
\* undefined, also for "constructor", "toString" and "__proto__".
C3_AbsentIsUndefined ==
  \A r \in Readers :
    ( /\ pc = "ready"
      /\ crumbPath[r] # ""
      /\ \A i \in 1..Len(tools) : tools[i].href # crumbPath[r] )
    => crumbLabel[r] = Undefined

\* C4: after initialization both exports equal their initial values in
\* every reachable state: no operation available on them mutates them.
C4_NeverMutated ==
  pc = "ready" =>
    /\ tools = BUILTIN_TOOLS
    /\ index = ( "/admin/email" :> "<U+90AE><U+4EF6><U+914D><U+7F6E>"
              @@ "/admin/ip-security" :> "IP <U+5B89><U+5168>"
              @@ "/admin/audit-logs" :> "<U+5BA1><U+8BA1><U+65E5><U+5FD7>" )

\* C5: no two descriptors of the shipped registry at different positions
\* have the same href.
C5_HrefUnique ==
  \A i, j \in 1..Len(tools) : i # j => tools[i].href # tools[j].href

\* A menu renderer has iterated the whole shipped registry.
C5_Witness == \E r \in Readers : menuPos[r] = 3 /\ Len(menuSeen[r]) = 3

\* C6: for every registry the index has at most as many keys as the
\* registry has descriptors, and as many iff the hrefs are pairwise distinct.
C6_KeyCount ==
  pc = "ready" =>
    /\ Cardinality(Keys(index)) <= Len(tools)
    /\ (Cardinality(Keys(index)) = Len(tools))
         <=> (\A i, j \in 1..Len(tools) : i # j => tools[i].href # tools[j].href)

\* An index with fewer keys than descriptors: three descriptors, two keys.
C6_Witness == pc = "ready" /\ Len(tools) = 3 /\ Cardinality(Keys(index)) = 2

\* C7: the shipped registry is exactly the three descriptors (name, href)
\* of the literal and the derived index is exactly their href -> name map.
C7_Shipped ==
  /\ [i \in 1..Len(tools) |-> <<tools[i].name, tools[i].href>>]
       = << <<"<U+90AE><U+4EF6><U+914D><U+7F6E>", "/admin/email">>,
            <<"IP <U+5B89><U+5168>", "/admin/ip-security">>,
            <<"<U+5BA1><U+8BA1><U+65E5><U+5FD7>", "/admin/audit-logs">> >>
  /\ pc = "ready" =>
       index = ( "/admin/email" :> "<U+90AE><U+4EF6><U+914D><U+7F6E>"
              @@ "/admin/ip-security" :> "IP <U+5B89><U+5168>"
              @@ "/admin/audit-logs" :> "<U+5BA1><U+8BA1><U+65E5><U+5FD7>" )

\* A breadcrumb renderer got the label of /admin/audit-logs from the index.
C7_Witness ==
  \E r \in Readers :
    /\ crumbPath[r] = "/admin/audit-logs"
    /\ crumbLabel[r] = Str("<U+5BA1><U+8BA1><U+65E5><U+5FD7>")

\* C8: every iteration of BUILTIN_TOOLS yields the descriptors in the
\* declaration order /admin/email, /admin/ip-security, /admin/audit-logs,
\* and any two iterations (of one reader at two times, of two readers)
\* yield the identical sequence.
C8_StableOrder ==
  LET order == <<"/admin/email", "/admin/ip-security", "/admin/audit-logs">>
      hrefs(s) == [i \in 1..Len(s) |-> s[i].href]
      done(r) == menuPos[r] = 3
  IN /\ \A r \in Readers :
          /\ hrefs(menuSeen[r]) = SubSeq(order, 1, menuPos[r])
          /\ menuLast[r] # <<>> => hrefs(menuLast[r]) = order
          /\ (done(r) /\ menuLast[r] # <<>>) => menuSeen[r] = menuLast[r]
     /\ \A r1, r2 \in Readers :
          /\ (done(r1) /\ done(r2)) => menuSeen[r1] = menuSeen[r2]
          /\ (done(r1) /\ menuLast[r2] # <<>>) => menuSeen[r1] = menuLast[r2]

\* One reader has iterated the registry twice and another one once.
C8_Witness ==
  \E r1, r2 \in Readers :
    /\ r1 # r2
    /\ menuLast[r1] # <<>> /\ menuPos[r1] = 3
    /\ menuLast[r2] = <<>> /\ menuPos[r2] = 3

\* C9: the index derived from the empty registry has no keys, and the
\* derivation does not end in an error.
C9_EmptyRegistry ==
  tools = <<>> =>
    /\ pc # "failed"
    /\ pc = "ready" => (Keys(index) = {} /\ Cardinality(Keys(index)) = 0)

\* The derivation has run on the empty registry.
C9_Witness == pc = "ready" /\ tools = <<>> /\ entries = <<>>

\* C10: the derivation leaves the registry as it was (length, order, every
\* field), and the index is the one derived from the registry with every
\* description and icon blanked: it depends on href and name alone.
C10_Frame ==
  [][ /\ tools' = tools
      /\ pc' = "ready" =>
           LET blank == [i \in 1..Len(tools) |->
                           [tools[i] EXCEPT !.description = "", !.icon = ""]]
           IN index' = ObjectFromEntries(MapEntries(blank)).value ]_vars

\* An index was derived from descriptors that differ in description and icon.
C10_Witness ==
  /\ pc = "ready"
  /\ Len(tools) = 2
  /\ tools[1].description # tools[2].description
  /\ tools[1].icon # tools[2].icon
  /\ Keys(index) # {}

====
